---- MODULE Spec2Model ----
(***************************************************************************)
(* Model of src/dz/dz.py: the configuration-language pipeline              *)
(*   parser.parse(input) -> T().transform(tree) -> interp(tree, {})        *)
(*   -> json.dumps(tree) -> print(json_)                                   *)
(* The state machine starts after line 81 (the Lark parse tree exists) and *)
(* follows the module-level statements of lines 82..88.                    *)
(***************************************************************************)
EXTENDS Integers, Sequences, FiniteSets, TLC

VARIABLES parsed, tree, env, pc, i, output, json_, stdout, log

vars == <<parsed, tree, env, pc, i, output, json_, stdout, log>>

(* ---------------------------------------------------------------- bounds *)
\* total number of `value` nodes in an input program
MaxNodes == 5


(* ------------------------------------------------- values: one record shape *)
\* Every Lark tree, Lark token and Python value is a record of the same four
\* fields, so that any two of them can be compared.
Node(k, s, n, xs) == [kind |-> k, name |-> s, num |-> n, items |-> xs]

\* Lark tokens and trees (the result of parser.parse, grammar lines 10..19)
TokNUM(n) == Node("NUM", "", n, <<>>)
TokNAME(s) == Node("NAME", s, 0, <<>>)
LarkTree(rule, children) == Node(rule, "", 0, children)

\* Python values
PyFloat(n) == Node("float", "", n, <<>>)
PyStr(s) == Node("str", s, 0, <<>>)
PyList(xs) == Node("list", "", 0, xs)
PyTuple(xs) == Node("tuple", "", 0, xs)
PyNone == Node("None", "", 0, <<>>)
\* a dict is its insertion-ordered sequence of (key, value) pairs, keys unique
PyPair(k, v) == Node("pair", k, 0, <<v>>)
PyDict(pairs) == Node("dict", "", 0, pairs)

(* ------------------------------------------------------- the input domain *)
\* The inputs are the parse trees of the grammar (lines 10..19) with at most
\* MaxNodes `value` nodes.  A tree is a shape (which rule each value uses) and
\* a choice for each of its tokens, the choices read off a function f in the
\* order of the source text.
Shape(k, xs) == Node(k, "", 0, xs)

RECURSIVE ValueShapes(_)
RECURSIVE ShapeSeqs(_)

\* value: NUM | reference (a leaf), const, dict; exactly n value nodes
ValueShapes(n) ==
  IF n = 1 THEN {Shape("leaf", <<>>)}
  ELSE {Shape("const", <<s>>) : s \in ValueShapes(n - 1)}
       \cup {Shape("dict", ss) : ss \in ShapeSeqs(n - 1)}

\* value+ and (assign ".")+ : non-empty sequences holding exactly m value nodes
ShapeSeqs(m) ==
  UNION {{<<s>> \o rest :
            s \in ValueShapes(j),
            rest \in (IF j = m THEN {<<>>} ELSE ShapeSeqs(m - j))} : j \in 1..m}

ProgramShapes == UNION {ShapeSeqs(m) : m \in 1..MaxNodes}

\* the number of choices a shape needs: two for a leaf (NUM or reference, and
\* which), one for the NAME of a const, one for the NAME of each assign
RECURSIVE Slots(_)
RECURSIVE SlotsOfSeq(_, _, _)
Slots(s) ==
  CASE s.kind = "leaf" -> 2
    [] s.kind = "const" -> 1 + Slots(s.items[1])
    [] s.kind = "dict" -> SlotsOfSeq(s.items, 1, 1)

SlotsOfSeq(ss, j, perItem) ==
  IF j > Len(ss) THEN 0 ELSE perItem + Slots(ss[j]) + SlotsOfSeq(ss, j + 1, perItem)

NameOf(c) == IF c = 1 THEN "a" ELSE "b"

RECURSIVE LabelValue(_, _, _)
RECURSIVE LabelAssigns(_, _, _, _, _)
RECURSIVE LabelValues(_, _, _, _, _)

\* the parse tree of a value of shape s, reading f from slot k on
LabelValue(s, f, k) ==
  CASE s.kind = "leaf" ->
         [tree |-> LarkTree("value",
                     <<IF f[k] = 1 THEN TokNUM(f[k + 1])
                       ELSE LarkTree("reference", <<TokNAME(NameOf(f[k + 1]))>>)>>),
          k |-> k + 2]
    [] s.kind = "const" ->
         LET r == LabelValue(s.items[1], f, k + 1)
         IN  [tree |-> LarkTree("value",
                         <<LarkTree("const", <<TokNAME(NameOf(f[k])), r.tree>>)>>),
              k |-> r.k]
    [] s.kind = "dict" ->
         LET r == LabelAssigns(s.items, 1, f, k, <<>>)
         IN  [tree |-> LarkTree("value", <<LarkTree("dict", r.trees)>>), k |-> r.k]

LabelAssigns(ss, j, f, k, acc) ==
  IF j > Len(ss) THEN [trees |-> acc, k |-> k]
  ELSE LET r == LabelValue(ss[j], f, k + 1)
       IN  LabelAssigns(ss, j + 1, f, r.k,
             Append(acc, LarkTree("assign", <<TokNAME(NameOf(f[k])), r.tree>>)))

LabelValues(ss, j, f, k, acc) ==
  IF j > Len(ss) THEN [trees |-> acc, k |-> k]
  ELSE LET r == LabelValue(ss[j], f, k)
       IN  LabelValues(ss, j + 1, f, r.k, Append(acc, r.tree))

\* start: value+
ProgramOf(ss, f) == LarkTree("start", LabelValues(ss, 1, f, 1, <<>>).trees)

\* the tokens of a tree in source order
RECURSIVE Tokens(_)
RECURSIVE TokensOfSeq(_, _)
Tokens(p) ==
  IF p.kind \in {"NUM", "NAME"} THEN <<p>> ELSE TokensOfSeq(p.items, 1)

TokensOfSeq(ps, j) ==
  IF j > Len(ps) THEN <<>> ELSE Tokens(ps[j]) \o TokensOfSeq(ps, j + 1)

\* interp compares names and numbers only for equality, so it is enough to
\* take one program of each class of programs equal up to renaming: the one
\* whose first NUM is 1 and whose first NAME is "a"
FirstOfKind(toks, kind) ==
  LET at == {j \in 1..Len(toks) : toks[j].kind = kind}
  IN  IF at = {} THEN Node("None", "", 0, <<>>)
      ELSE toks[CHOOSE j \in at : \A l \in at : j <= l]

UpToRenaming(p) ==
  LET toks == Tokens(p)
  IN  /\ FirstOfKind(toks, "NUM").num \in {0, 1}
      /\ FirstOfKind(toks, "NAME").name \in {"", "a"}

(* ------------------------------------------------------ class T (lines 25..39) *)
\* d[k] = v on an insertion-ordered dict: an existing key keeps its position
RECURSIVE DictSetFrom(_, _, _, _)
DictSetFrom(pairs, k, v, j) ==
  IF j > Len(pairs) THEN Append(pairs, PyPair(k, v))
  ELSE IF pairs[j].name = k THEN [pairs EXCEPT ![j] = PyPair(k, v)]
  ELSE DictSetFrom(pairs, k, v, j + 1)

\* mutant: an overwritten key moves to the end (delete, then insert)
DictSetMoveToEnd(pairs, k, v) ==
  Append(SelectSeq(pairs, LAMBDA p : p.name # k), PyPair(k, v))

DictSet(pairs, k, v) == DictSetFrom(pairs, k, v, 1)

\* dict(name): name is a list of [key, value] lists
RECURSIVE DictOfFrom(_, _, _)
DictOfFrom(lists, j, acc) ==
  IF j > Len(lists) THEN PyDict(acc)
  ELSE DictOfFrom(lists, j + 1,
                  DictSet(acc, lists[j].items[1].name, lists[j].items[2]))

DictOf(lists) == DictOfFrom(lists, 1, <<>>)

\* Transformer.transform: children first, then the rule's callback
RECURSIVE Transform(_)
Transform(p) ==
  IF p.kind = "NUM" THEN PyFloat(p.num)
  ELSE IF p.kind = "NAME" THEN PyStr(p.name)
  ELSE LET name == [j \in 1..Len(p.items) |-> Transform(p.items[j])]
       IN  CASE p.kind = "start" -> PyList(name)
             [] p.kind = "assign" -> PyList(name)
             [] p.kind = "dict" -> DictOf(name)
             [] p.kind = "value" -> name[1]
             [] p.kind = "reference" -> PyTuple(<<PyStr("ref"), name[1]>>)
             [] p.kind = "const" -> PyTuple(<<PyStr("const"), PyList(name)>>)

(* ------------------------------------------------------ interp (lines 55..78) *)
\* one access of env, in the order it happens
SetEvent(x, v) == [op |-> "set", name |-> x, ok |-> TRUE, val |-> v]
GetEvent(x, v) == [op |-> "get", name |-> x, ok |-> TRUE, val |-> v]
KeyErrorEvent(x) == [op |-> "get", name |-> x, ok |-> FALSE, val |-> PyNone]

\* what a call leaves behind: its return value, env, whether it raised, the accesses
Outcome(v, e, raised, lg) == [val |-> v, env |-> e, err |-> raised, log |-> lg]

\* mutant: the first binding of a name is kept (env.setdefault(name, value))
EnvSetKeepFirst(e, x, v) ==
  [y \in (DOMAIN e) \cup {x} |-> IF y \in DOMAIN e THEN e[y] ELSE v]

\* env[name] = value
EnvSet(e, x, v) == [y \in (DOMAIN e) \cup {x} |-> IF y = x THEN v ELSE e[y]]

\* mutant: a missing name yields None instead of raising (env.get(name))
EnvGetDefault(e, x) ==
  IF x \in DOMAIN e THEN Outcome(e[x], e, FALSE, <<GetEvent(x, e[x])>>)
  ELSE Outcome(PyNone, e, FALSE, <<GetEvent(x, PyNone)>>)

\* env[name]
EnvGet(e, x) ==
  IF x \in DOMAIN e THEN Outcome(e[x], e, FALSE, <<GetEvent(x, e[x])>>)
  ELSE Outcome(PyNone, e, TRUE, <<KeyErrorEvent(x)>>)

RECURSIVE Interp(_, _)
RECURSIVE InterpDict(_, _, _, _, _)
RECURSIVE InterpDictBindsKeys(_, _, _, _, _)

\* mutant: an entry also binds its key, so that later references see it
InterpDictBindsKeys(pairs, j, out, e, lg) ==
  IF j > Len(pairs) THEN Outcome(PyDict(out), e, FALSE, lg)
  ELSE LET r == Interp(pairs[j].items[1], e)
       IN  IF r.err THEN Outcome(PyNone, r.env, TRUE, lg \o r.log)
           ELSE InterpDictBindsKeys(pairs, j + 1, DictSet(out, pairs[j].name, r.val),
                                    EnvSet(r.env, pairs[j].name, r.val), lg \o r.log)

\* lines 61..64: for k in tree: output[k] = interp(tree[k], env)
InterpDict(pairs, j, out, e, lg) ==
  IF j > Len(pairs) THEN Outcome(PyDict(out), e, FALSE, lg)
  ELSE LET r == Interp(pairs[j].items[1], e)
       IN  IF r.err THEN Outcome(PyNone, r.env, TRUE, lg \o r.log)
           ELSE InterpDict(pairs, j + 1, DictSet(out, pairs[j].name, r.val),
                           r.env, lg \o r.log)

\* interp(tree, env) for every tree but the top-level list
Interp(t, e) ==
  CASE t.kind = "float" -> Outcome(t, e, FALSE, <<>>)
    [] t.kind = "str" -> Outcome(t, e, FALSE, <<>>)
    [] t.kind = "dict" -> InterpDict(t.items, 1, <<>>, e, <<>>)
    [] t.kind = "tuple" ->
         IF t.items[1].name = "const"
         THEN LET name == t.items[2].items[1].name
                  value == t.items[2].items[2]
              IN  Outcome(PyList(<<PyStr(name), value>>), EnvSet(e, name, value),
                          FALSE, <<SetEvent(name, value)>>)
         ELSE IF t.items[1].name = "ref"
         THEN EnvGet(e, t.items[2].name)
         ELSE Outcome(PyNone, e, FALSE, <<>>)
    [] OTHER -> Outcome(PyNone, e, FALSE, <<>>)

(* --------------------------------------------------- json.dumps (line 87) *)
RECURSIVE JsonDumps(_)
RECURSIVE JsonJoin(_, _)

JsonJoin(xs, j) ==
  IF j > Len(xs) THEN ""
  ELSE (IF j > 1 THEN ", " ELSE "")
       \o (IF xs[j].kind = "pair"
           THEN "\"" \o xs[j].name \o "\": " \o JsonDumps(xs[j].items[1])
           ELSE JsonDumps(xs[j]))
       \o JsonJoin(xs, j + 1)

JsonDumps(v) ==
  CASE v.kind = "float" -> ToString(v.num) \o ".0"
    [] v.kind = "str" -> "\"" \o v.name \o "\""
    [] v.kind = "list" -> "[" \o JsonJoin(v.items, 1) \o "]"
    [] v.kind = "tuple" -> "[" \o JsonJoin(v.items, 1) \o "]"
    [] v.kind = "dict" -> "{" \o JsonJoin(v.items, 1) \o "}"
    [] OTHER -> "null"

(* ------------------------------------------------------------ the program *)
EmptyEnv == [x \in {} |-> PyNone]

\* after line 81: tree = parser.parse(input)
Init ==
  /\ \E ss \in ProgramShapes :
       \E f \in [1..SlotsOfSeq(ss, 1, 0) -> 1..2] :
         /\ parsed = ProgramOf(ss, f)
         /\ UpToRenaming(parsed)
  /\ tree = parsed
  /\ env = EmptyEnv
  /\ pc = "transform"
  /\ i = 0
  /\ output = <<>>
  /\ json_ = ""
  /\ stdout = <<>>
  /\ log = <<>>

\* line 82: tree = T(visit_tokens=True).transform(tree)
TransformTree ==
  /\ pc = "transform"
  /\ tree' = Transform(tree)
  /\ pc' = "interp"
  /\ UNCHANGED <<parsed, env, i, output, json_, stdout, log>>

\* mutant: a failed lookup is swallowed and the loop goes on with None
InterpStepSwallow ==
  /\ pc = "interp"
  /\ i < Len(tree.items)
  /\ LET r == Interp(tree.items[i + 1], env)
     IN  /\ env' = r.env
         /\ log' = log \o r.log
         /\ output' = Append(output, IF r.err THEN PyNone ELSE r.val)
         /\ i' = i + 1
         /\ pc' = pc
  /\ UNCHANGED <<parsed, tree, json_, stdout>>

\* mutant: the result of an entry is put in front (output.insert(0, ...))
InterpStepPrepend ==
  /\ pc = "interp"
  /\ i < Len(tree.items)
  /\ LET r == Interp(tree.items[i + 1], env)
     IN  /\ env' = r.env
         /\ log' = log \o r.log
         /\ IF r.err
            THEN /\ pc' = "KeyError"
                 /\ UNCHANGED <<i, output>>
            ELSE /\ output' = <<r.val>> \o output
                 /\ i' = i + 1
                 /\ pc' = pc
  /\ UNCHANGED <<parsed, tree, json_, stdout>>

\* line 86, lines 67..68: one round of the loop over the top-level list;
\* a KeyError leaves the loop and the module
InterpStep ==
  /\ pc = "interp"
  /\ i < Len(tree.items)
  /\ LET r == Interp(tree.items[i + 1], env)
     IN  /\ env' = r.env
         /\ log' = log \o r.log
         /\ IF r.err
            THEN /\ pc' = "KeyError"
                 /\ UNCHANGED <<i, output>>
            ELSE /\ output' = Append(output, r.val)
                 /\ i' = i + 1
                 /\ pc' = pc
  /\ UNCHANGED <<parsed, tree, json_, stdout>>

\* line 86, line 69: return output; tree = interp(tree, {})
InterpReturn ==
  /\ pc = "interp"
  /\ i = Len(tree.items)
  /\ tree' = PyList(output)
  /\ pc' = "dumps"
  /\ UNCHANGED <<parsed, env, i, output, json_, stdout, log>>

\* line 87: json_ = json.dumps(tree)
Dumps ==
  /\ pc = "dumps"
  /\ json_' = JsonDumps(tree)
  /\ pc' = "print"
  /\ UNCHANGED <<parsed, tree, env, i, output, stdout, log>>

\* line 88: print(json_)
PrintJson ==
  /\ pc = "print"
  /\ stdout' = Append(stdout, json_)
  /\ pc' = "done"
  /\ UNCHANGED <<parsed, tree, env, i, output, json_, log>>

Next == TransformTree \/ InterpStep \/ InterpReturn \/ Dumps \/ PrintJson

Spec == Init /\ [][Next]_vars

(* =============================================================== claims *)
\* helpers over the input (the parse tree) and over the accesses of env

\* the names of the const nodes of p; intoConst: also those inside a const's value
RECURSIVE DeclNames(_, _)
DeclNames(p, intoConst) ==
  IF p.kind \in {"NUM", "NAME"} THEN {}
  ELSE IF p.kind = "const"
  THEN {p.items[1].name}
       \cup (IF intoConst THEN DeclNames(p.items[2], intoConst) ELSE {})
  ELSE UNION {DeclNames(p.items[j], intoConst) : j \in 1..Len(p.items)}

\* the values the const nodes of p give to x, as the transformer hands them on
RECURSIVE DeclValues(_, _)
DeclValues(p, x) ==
  IF p.kind \in {"NUM", "NAME"} THEN {}
  ELSE (IF p.kind = "const" /\ p.items[1].name = x
        THEN {Transform(p.items[2])} ELSE {})
       \cup UNION {DeclValues(p.items[j], x) : j \in 1..Len(p.items)}

\* some record of p has two entries with the same key
RECURSIVE HasRepeatedKey(_)
HasRepeatedKey(p) ==
  /\ p.kind \notin {"NUM", "NAME"}
  /\ \/ /\ p.kind = "dict"
        /\ \E u, v \in 1..Len(p.items) :
             u < v /\ p.items[u].items[1].name = p.items[v].items[1].name
     \/ \E j \in 1..Len(p.items) : HasRepeatedKey(p.items[j])

\* the declarations and references of p in source order, a const after its value
RECURSIVE SourceOps(_)
RECURSIVE SourceOpsOfSeq(_, _)
SourceOps(p) ==
  CASE p.kind \in {"NUM", "NAME"} -> <<>>
    [] p.kind = "reference" -> <<<<"get", p.items[1].name>>>>
    [] p.kind = "const" -> SourceOps(p.items[2]) \o <<<<"set", p.items[1].name>>>>
    [] OTHER -> SourceOpsOfSeq(p.items, 1)

SourceOpsOfSeq(ps, j) ==
  IF j > Len(ps) THEN <<>> ELSE SourceOps(ps[j]) \o SourceOpsOfSeq(ps, j + 1)

\* no const of p has a declaration or a reference inside its value
RECURSIVE PlainDecls(_)
PlainDecls(p) ==
  CASE p.kind \in {"NUM", "NAME"} -> TRUE
    [] p.kind = "const" -> SourceOps(p.items[2]) = <<>>
    [] OTHER -> \A j \in 1..Len(p.items) : PlainDecls(p.items[j])

\* a Python value without a ("ref", ...) or ("const", ...) tuple in it
RECURSIVE Resolved(_)
Resolved(v) ==
  /\ v.kind # "tuple"
  /\ \A j \in 1..Len(v.items) : Resolved(v.items[j])

LogOps == [p \in 1..Len(log) |-> <<log[p].op, log[p].name>>]

\* the positions before p where x was declared
SetsBefore(p, x) == {q \in 1..(p - 1) : log[q].op = "set" /\ log[q].name = x}

LastOf(S) == CHOOSE q \in S : \A r \in S : r <= q

\* the keys of a record's entries in source order, each at its first occurrence
RECURSIVE FirstOccurrences(_, _, _)
FirstOccurrences(assigns, j, acc) ==
  IF j > Len(assigns) THEN acc
  ELSE LET k == assigns[j].items[1].name
       IN  FirstOccurrences(assigns, j + 1,
             IF \E l \in 1..Len(acc) : acc[l] = k THEN acc ELSE Append(acc, k))

\* the value tree of the last entry with key k
LastEntry(assigns, k) ==
  assigns[LastOf({j \in 1..Len(assigns) : assigns[j].items[1].name = k})].items[2]

\* o is what the record, number or declaration p (a value tree) evaluates to, as
\* far as keys, order and numbers go
RECURSIVE Materialized(_, _)
Materialized(p, o) ==
  LET c == p.items[1]
  IN  CASE c.kind = "NUM" -> o = PyFloat(c.num)
        [] c.kind = "dict" ->
             LET keys == FirstOccurrences(c.items, 1, <<>>)
             IN  /\ o.kind = "dict"
                 /\ [j \in 1..Len(o.items) |-> o.items[j].name] = keys
                 /\ \A j \in 1..Len(o.items) :
                      /\ o.items[j].kind = "pair"
                      /\ Materialized(LastEntry(c.items, keys[j]), o.items[j].items[1])
        [] c.kind = "const" ->
             o.kind = "list" /\ Len(o.items) = 2 /\ o.items[1] = PyStr(c.items[1].name)
        [] OTHER -> TRUE

AllNumbers == \A j \in 1..Len(parsed.items) : parsed.items[j].items[1].kind = "NUM"

RECURSIVE NumbersText(_, _)
NumbersText(ps, j) ==
  IF j > Len(ps) THEN ""
  ELSE (IF j > 1 THEN ", " ELSE "") \o ToString(ps[j].items[1].num) \o ".0"
       \o NumbersText(ps, j + 1)

(* C1: a reference to x evaluated after one or more declarations of x have   *)
(* been evaluated succeeds and yields the value bound by the most recently   *)
(* evaluated declaration of x (last write wins).                             *)
C1_LastWriteWins ==
  \A p \in 1..Len(log) :
    (log[p].op = "get" /\ SetsBefore(p, log[p].name) # {})
      => /\ log[p].ok
         /\ log[p].val = log[LastOf(SetsBefore(p, log[p].name))].val

\* x declared twice with different values, then referenced: the second value
C1_Witness ==
  /\ pc = "done"
  /\ \E p, q, r \in 1..Len(log) :
       /\ p < q /\ q < r
       /\ log[p].op = "set" /\ log[q].op = "set" /\ log[r].op = "get"
       /\ log[p].name = log[q].name /\ log[q].name = log[r].name
       /\ log[p].val # log[q].val
       /\ log[r].val = log[q].val

(* C2: a reference to x evaluated when no declaration of x has been          *)
(* evaluated before it fails (KeyError), and the evaluation ends there,      *)
(* also when a declaration of x comes later in the program.                  *)
C2_UnboundFails ==
  \A p \in 1..Len(log) :
    (log[p].op = "get" /\ SetsBefore(p, log[p].name) = {})
      => /\ ~log[p].ok
         /\ p = Len(log)
         /\ pc = "KeyError"

\* a forward reference: x is declared by a later top-level entry
C2_Witness ==
  /\ pc = "KeyError"
  /\ Len(log) > 0
  /\ ~log[Len(log)].ok
  /\ \E j \in (i + 2)..Len(parsed.items) :
       /\ parsed.items[j].items[1].kind = "const"
       /\ parsed.items[j].items[1].items[1].name = log[Len(log)].name

(* C3: the environment and a successful output hold evaluated values only:   *)
(* no unresolved Reference or ConstDecl node is stored under a name or       *)
(* returned.                                                                 *)
C3_OnlyEvaluatedValues ==
  /\ \A x \in DOMAIN env : Resolved(env[x])
  /\ \A j \in 1..Len(output) : Resolved(output[j])

(* C4: every declaration that is an entry of a record takes effect, also     *)
(* when a later entry of the record repeats its key: after a successful      *)
(* evaluation every const outside another const's value has bound its name.  *)
C4_OverwrittenEntryEvaluated ==
  pc = "done" => DeclNames(parsed, FALSE) \subseteq DOMAIN env

(* C5: an evaluated record holds each distinct key once, the keys in source  *)
(* order with a repeated key at its first position, each mapped to the value *)
(* of the last entry with that key.                                          *)
C5_RecordKeysOnce ==
  \A j \in 1..Len(output) : Materialized(parsed.items[j], output[j])

\* a record with a repeated key between whose occurrences another key stands
C5_Witness ==
  /\ pc = "done"
  /\ \E j \in 1..Len(output) :
       LET c == parsed.items[j].items[1]
       IN  /\ c.kind = "dict"
           /\ \E u, v, w \in 1..Len(c.items) :
                /\ u < v /\ v < w
                /\ c.items[u].items[1].name = c.items[w].items[1].name
                /\ c.items[u].items[1].name # c.items[v].items[1].name
                /\ c.items[u].items[2] # c.items[w].items[2]
           /\ Len(output[j].items) = 2

(* C6: once a lookup has failed the evaluation is over and nothing is        *)
(* produced: the failure is the last access, the result is not assigned,     *)
(* nothing is serialized or printed.                                         *)
C6_FailureIsFatal ==
  (\E p \in 1..Len(log) : ~log[p].ok)
    => /\ pc = "KeyError"
       /\ ~log[Len(log)].ok
       /\ \A p \in 1..(Len(log) - 1) : log[p].ok
       /\ tree = Transform(parsed)
       /\ json_ = ""
       /\ stdout = <<>>

\* the failure is inside a record, after top-level entries were evaluated
C6_Witness ==
  /\ pc = "KeyError"
  /\ Len(output) >= 1
  /\ tree.items[i + 1].kind = "dict"

(* C7: a program of numeric literals only evaluates to the same numbers in   *)
(* the same order, and the environment stays empty.                          *)
C7_NumericIdentity ==
  AllNumbers
    => /\ env = EmptyEnv
       /\ log = <<>>
       /\ pc # "KeyError"
       /\ output = [j \in 1..Len(output) |-> PyFloat(parsed.items[j].items[1].num)]
       /\ pc \in {"dumps", "print", "done"}
            => tree = PyList([j \in 1..Len(parsed.items) |->
                                PyFloat(parsed.items[j].items[1].num)])
       /\ pc = "done" => stdout = <<"[" \o NumbersText(parsed.items, 1) \o "]">>

\* two different numbers
C7_Witness ==
  /\ pc = "done"
  /\ AllNumbers
  /\ Len(parsed.items) >= 2
  /\ parsed.items[1] # parsed.items[2]

(* C8: a declaration evaluated at any depth, also inside the value of        *)
(* another declaration, binds its name in the one environment (stated for    *)
(* the programs without a repeated key).                                     *)
C8_DeclAtAnyDepthBinds ==
  (pc = "done" /\ ~HasRepeatedKey(parsed))
    => DeclNames(parsed, TRUE) \subseteq DOMAIN env

(* C9: lookup is global only: the environment holds names bound by           *)
(* declarations only, and a successful reference to x yields the value of a  *)
(* declaration of x, never the value of a record key x.                      *)
C9_GlobalOnlyLookup ==
  /\ \A x \in DOMAIN env : \E p \in 1..Len(log) : log[p].op = "set" /\ log[p].name = x
  /\ \A p \in 1..Len(log) :
       (log[p].op = "get" /\ log[p].ok) => log[p].val \in DeclValues(parsed, log[p].name)

\* a record whose key x, with another value, stands before its reference to x
C9_Witness ==
  /\ pc = "done"
  /\ \E j \in 1..Len(output) :
       LET c == parsed.items[j].items[1]
       IN  /\ c.kind = "dict"
           /\ ~HasRepeatedKey(c)
           /\ \E u, v \in 1..Len(c.items) :
                /\ u < v
                /\ c.items[v].items[2].items[1].kind = "reference"
                /\ c.items[v].items[2].items[1].items[1].name = c.items[u].items[1].name
                /\ c.items[u].items[2].items[1].kind = "NUM"
                /\ output[j].items[v].items[1] # output[j].items[u].items[1]

(* C10: the entries of a record are evaluated in source order, each before   *)
(* the next, also when keys repeat: the declarations and references happen   *)
(* in the order of the source (stated for the programs whose declarations    *)
(* have no declaration or reference inside their value).                     *)
C10_EntriesInSourceOrder ==
  PlainDecls(parsed)
    => LET ops == SourceOps(parsed)
       IN  /\ Len(log) <= Len(ops)
           /\ LogOps = SubSeq(ops, 1, Len(log))

====
